---- MODULE Spec2Model ----
(***************************************************************************)
(* PrecoCerto backend (src/server.js, "Backend v8"): contribution          *)
(* moderation, client trust state, price table and the re-registration     *)
(* blacklist.  Each Express route handler is one action; a Mongoose call   *)
(* is one atomic step on the collection it touches.                        *)
(***************************************************************************)
EXTENDS Integers, Sequences, FiniteSets, TLC

VARIABLES
  clientes,   \* Cliente collection: _id -> document
  contribs,   \* Contribuicao collection: sequence, _id = index (createdAt order)
  precos,     \* Preco collection: sequence of documents (index is not unique)
  blacklist,  \* Blacklist collection: telefone (unique) -> document
  now,        \* wall clock, in days
  res,        \* the response sent by the last handler that ran
  reqs,       \* decision requests in flight: slot -> request
  proxId      \* the next Cliente _id the database hands out

vars == <<clientes, contribs, precos, blacklist, now, res, reqs, proxId>>

-----------------------------------------------------------------------------
(* Bounds *)

MaxDecisoes == 3      \* decisions ever counted in the clients' trust counters
MaxReqs     == 2      \* decision requests received in one run
MaxCadastros == 2     \* client accounts ever created in one run
DiaInicial  == 181    \* the day a run starts: 1 July
Horizonte   == 93     \* days a run lasts
ErrosAnteriores == 1  \* rejections a client already has when a concurrent run starts

\* consecutive rejections after which a client is to be blocked
LimiteErros == 3

-----------------------------------------------------------------------------
(* JavaScript values that arrive in a JSON body *)

JsUndef   == [t |-> "undefined", v |-> 0]
JsNum(n)  == [t |-> "number", v |-> n]
\* a non-empty string that spells the number n, such as "0.0" or "2"
JsStr(n)  == [t |-> "string", v |-> n]

\* !x is FALSE: undefined, 0 and "" are falsy, every non-empty string is truthy
Truthy(x) ==
  CASE x.t = "undefined" -> FALSE
    [] x.t = "number"    -> x.v # 0
    [] x.t = "string"    -> TRUE

\* parseFloat of a number or of a string that spells a number
parseFloat(x) == x.v

\* parseInt of an integer or of a string that spells one
parseInt(x) == x.v

\* mongoose.Types.ObjectId cast of a reference: "bad" is not a 24-hex id
Produtos    == {"p1", "p2"}
Mercados    == {"m1"}
IsObjectId(s) == s \in Produtos \cup Mercados

\* bodies of POST /api/contribuicoes: produtoId, mercadoId, preco
\* ("" is a missing field)
ProdutoInputs == {"", "p1", "bad"}
MercadoInputs == {"", "m1"}
PrecoInputs   == {JsUndef, JsNum(0), JsNum(2), JsStr(0), JsNum(-1)}
\* the bodies that pass the input check with a well-formed product
PrecosAceites == {JsNum(2), JsStr(0)}
Motivos       == {"", "preco errado"}
ContribIds    == {1, 2}
\* a req.params.id that does not cast to an ObjectId, such as "abc"
IdMalformado  == 0
\* bodies of PATCH /api/admin/clientes/:id/bloquear: tipo, dias, motivo
BloqueioInputs ==
  { [tipo |-> "temp", dias |-> JsNum(7), motivo |-> ""],
    [tipo |-> "temp", dias |-> JsNum(0), motivo |-> ""],
    [tipo |-> "perm", dias |-> JsUndef,  motivo |-> "spam"] }
BloqueiosComuns ==
  { [tipo |-> "temp", dias |-> JsNum(7), motivo |-> ""],
    [tipo |-> "perm", dias |-> JsUndef,  motivo |-> "spam"] }
\* bodies of POST /api/precos: produtoId, mercadoId, preco, fonte
TabelaInputs ==
  [produtoId : {"p1", "p2"}, mercadoId : {"m1"}, preco : {JsNum(3)},
   fonte : {"", "mercado"}]

-----------------------------------------------------------------------------
(* Contact identifiers: a string is the sequence of its characters *)

Digitos == {"0", "1", "2", "3", "4", "5", "6", "7", "8", "9"}
IsDigit(ch) == ch \in Digitos

normTelSoEspacos(t) == SelectSeq(t, LAMBDA ch : ch # " ")

\* String(t||'').replace(/\D/g,'')
normTel(t) == SelectSeq(t, IsDigit)

\* "75999990000", "75988887777" and other spellings of the first number
Tel1  == <<"7","5","9","9","9","9","9","0","0","0","0">>
Tel2  == <<"7","5","9","8","8","8","8","7","7","7","7">>
Tel1a == <<"(","7","5",")"," ","9","9","9","9","9","-","0","0","0","0">>
Tel1b == <<"7","5"," ","9","9","9","9","9"," ","0","0","0","0">>
TelCurto == <<"7","5"," ","9","9","9","9">>

\* shortest accepted digit sequence and password
MinTelLen   == 10
MinSenhaLen == 6

-----------------------------------------------------------------------------
(* Dates: a Date is its day number, day 0 being 1 January of year 0; years  *)
(* have 365 days.                                                           *)

DiasPorMes == <<31, 28, 31, 30, 31, 30, 31, 31, 30, 31, 30, 31>>

\* days of the year before month m (0 = January)
RECURSIVE DiasAntes(_)
DiasAntes(m) == IF m = 0 THEN 0 ELSE DiasAntes(m - 1) + DiasPorMes[m]

getFullYear(d) == d \div 365
getMonth(d) ==
  CHOOSE m \in 0..11 :
    /\ DiasAntes(m) <= d % 365
    /\ d % 365 < DiasAntes(m) + DiasPorMes[m + 1]
getDate(d) == (d % 365) - DiasAntes(getMonth(d)) + 1

\* new Date(y, m, dia): a month past December and a day past the end of the
\* month roll over
DateOf(y, m, dia) == 365 * (y + m \div 12) + DiasAntes(m % 12) + dia - 1

\* d.setMonth(m)
setMonth(d, m) == DateOf(getFullYear(d), m, getDate(d))

\* months a deleted client's number stays in the blacklist
MesesBlacklist == 2

-----------------------------------------------------------------------------
(* Documents *)

ClienteIds == {1, 2}
NomeDe(id)  == IF id = 1 THEN "Ana" ELSE "Bia"
LoginDe(id) == IF id = 1 THEN "ana" ELSE "bia"
TelDe(id)   == IF id = 1 THEN Tel1 ELSE Tel2

\* null in a date field (dates are day numbers >= 0)
Null == -1

\* ClienteSchema defaults
NovoCliente(nome, login, telefone) ==
  [ nome |-> nome, login |-> login, telefone |-> telefone,
    bloqueado |-> FALSE, banPermanente |-> FALSE, banTemporario |-> Null,
    motivoBloqueio |-> "",
    errosConsecutivos |-> 0, totalContribuicoes |-> 0,
    contribuicoesRejeitadas |-> 0 ]

\* ContribuicaoSchema defaults
NovaContribuicao(produtoId, mercadoId, preco, autor, clienteId) ==
  [ produtoId |-> produtoId, mercadoId |-> mercadoId, preco |-> preco,
    autor |-> autor, clienteId |-> clienteId,
    status |-> "pendente", motivoRecusa |-> "" ]

\* authenticated principals (the verified JWT payload)
Users ==
  {[tipo |-> "cliente", id |-> id, login |-> LoginDe(id)] : id \in ClienteIds}
    \cup {[tipo |-> "admin", id |-> 0, login |-> ""]}

Resp(op, id, status) == [op |-> op, id |-> id, status |-> status]

-----------------------------------------------------------------------------
(* Persistence operations *)

\* Preco.findOneAndUpdate({produtoId, mercadoId}, doc, {upsert:true}):
\* updates the first matching document, inserts when none matches
PrecoMatches(ps, p, m) ==
  {i \in 1..Len(ps) : ps[i].produtoId = p /\ ps[i].mercadoId = m}

Min(S) == CHOOSE x \in S : \A y \in S : x <= y

PrecoUpsert(ps, doc) ==
  LET hits == PrecoMatches(ps, doc.produtoId, doc.mercadoId)
  IN IF hits = {} THEN Append(ps, doc)
     ELSE [ps EXCEPT ![Min(hits)] = doc]

\* decisions counted so far in the trust counters of the existing clients
RECURSIVE SumDecisoes(_, _)
SumDecisoes(cs, ids) ==
  IF ids = {} THEN 0
  ELSE LET id == CHOOSE x \in ids : TRUE
       IN cs[id].totalContribuicoes + cs[id].contribuicoesRejeitadas
            + SumDecisoes(cs, ids \ {id})
Decisoes(cs) == SumDecisoes(cs, DOMAIN cs)

-----------------------------------------------------------------------------
(* Route handlers *)

PostContribuicoesSemBloqueio(user, produtoId, mercadoId, preco) ==
  /\ UNCHANGED <<clientes, precos, blacklist, now, reqs, proxId>>
  /\ IF user.tipo # "cliente"
       THEN /\ res' = Resp("submit", user.id, 403)
            /\ UNCHANGED contribs
     ELSE IF produtoId = "" \/ mercadoId = "" \/ ~Truthy(preco)
       THEN /\ res' = Resp("submit", user.id, 400)
            /\ UNCHANGED contribs
     ELSE IF user.id \notin DOMAIN clientes
       THEN /\ res' = Resp("submit", user.id, 403)
            /\ UNCHANGED contribs
     ELSE /\ Len(contribs) < Cardinality(ContribIds)
          /\ contribs' = Append(contribs,
                NovaContribuicao(produtoId, mercadoId, parseFloat(preco),
                                 clientes[user.id].nome, user.id))
          /\ res' = Resp("submit", user.id, 201)

PostContribuicoesBanVencido(user, produtoId, mercadoId, preco) ==
  /\ UNCHANGED <<clientes, precos, blacklist, now, reqs, proxId>>
  /\ IF user.tipo # "cliente"
       THEN /\ res' = Resp("submit", user.id, 403)
            /\ UNCHANGED contribs
     ELSE IF produtoId = "" \/ mercadoId = "" \/ ~Truthy(preco)
       THEN /\ res' = Resp("submit", user.id, 400)
            /\ UNCHANGED contribs
     ELSE IF user.id \notin DOMAIN clientes
               \/ (clientes[user.id].bloqueado
                     /\ ~(clientes[user.id].banTemporario # Null
                            /\ clientes[user.id].banTemporario <= now))
       THEN /\ res' = Resp("submit", user.id, 403)
            /\ UNCHANGED contribs
     ELSE /\ Len(contribs) < Cardinality(ContribIds)
          /\ contribs' = Append(contribs,
                NovaContribuicao(produtoId, mercadoId, parseFloat(preco),
                                 clientes[user.id].nome, user.id))
          /\ res' = Resp("submit", user.id, 201)

\* POST /api/contribuicoes
PostContribuicoes(user, produtoId, mercadoId, preco) ==
  /\ UNCHANGED <<clientes, precos, blacklist, now, reqs, proxId>>
  /\ IF user.tipo # "cliente"
       THEN /\ res' = Resp("submit", user.id, 403)
            /\ UNCHANGED contribs
     ELSE IF produtoId = "" \/ mercadoId = "" \/ ~Truthy(preco)
       THEN /\ res' = Resp("submit", user.id, 400)
            /\ UNCHANGED contribs
     ELSE IF user.id \notin DOMAIN clientes \/ clientes[user.id].bloqueado
       THEN /\ res' = Resp("submit", user.id, 403)
            /\ UNCHANGED contribs
     ELSE /\ Len(contribs) < Cardinality(ContribIds)
          /\ contribs' = Append(contribs,
                NovaContribuicao(produtoId, mercadoId, parseFloat(preco),
                                 clientes[user.id].nome, user.id))
          /\ res' = Resp("submit", user.id, 201)

\* the SSE responses registered in adminsOnline, each by what a write to it
\* does: "ok", "ended" (writableEnded, skipped) or "throws"
AdminsOnlineInputs == {<<>>, <<"ok">>, <<"ended">>, <<"throws">>, <<"ok", "throws">>}

\* notificarAdmins: writes the event to every stream not ended; nothing
\* catches a write that throws, so the loop ends with the exception
notificarAdmins(admins) ==
  IF \E i \in DOMAIN admins : admins[i] = "throws" THEN "throws" ELSE "returns"

\* POST /api/contribuicoes with the admins connected at the time: the
\* notification runs inside the try, between the create and the answer
PostContribuicoesSSE(user, produtoId, mercadoId, preco, admins) ==
  /\ UNCHANGED <<clientes, precos, blacklist, now, reqs, proxId>>
  /\ IF user.tipo # "cliente"
       THEN /\ res' = Resp("submit", user.id, 403)
            /\ UNCHANGED contribs
     ELSE IF produtoId = "" \/ mercadoId = "" \/ ~Truthy(preco)
       THEN /\ res' = Resp("submit", user.id, 400)
            /\ UNCHANGED contribs
     ELSE IF user.id \notin DOMAIN clientes \/ clientes[user.id].bloqueado
       THEN /\ res' = Resp("submit", user.id, 403)
            /\ UNCHANGED contribs
     ELSE /\ Len(contribs) < Cardinality(ContribIds)
          /\ contribs' = Append(contribs,
                NovaContribuicao(produtoId, mercadoId, parseFloat(preco),
                                 clientes[user.id].nome, user.id))
          /\ res' = IF notificarAdmins(admins) = "throws"
                      THEN Resp("submit", user.id, 500)
                      ELSE Resp("submit", user.id, 201)

AprovarClienteDesbloqueia(c) ==
  [c EXCEPT !.totalContribuicoes = @ + 1, !.errosConsecutivos = 0,
            !.bloqueado = FALSE, !.banPermanente = FALSE,
            !.banTemporario = Null, !.motivoBloqueio = ""]

AprovarClienteSemReset(c) ==
  [c EXCEPT !.totalContribuicoes = @ + 1]

AprovarCliente(c) ==
  [c EXCEPT !.totalContribuicoes = @ + 1, !.errosConsecutivos = 0]

\* a sequence in reverse order
RECURSIVE Reverse(_)
Reverse(s) == IF s = <<>> THEN <<>> ELSE Append(Reverse(Tail(s)), Head(s))

\* .limit(200) of the listing
LimiteLista == 200

\* Contribuicao.find().sort({createdAt:-1}).limit(200): every stored
\* contribution, the latest created first (contribs is in creation order)
ListaContribuicoes(cs) ==
  LET rev == Reverse(cs)
  IN SubSeq(rev, 1, IF Len(rev) < LimiteLista THEN Len(rev) ELSE LimiteLista)

\* GET /api/contribuicoes
GetContribuicoes(user) ==
  /\ res' = Resp("listar", user.id, IF user.tipo = "admin" THEN 200 ELSE 403)
  /\ UNCHANGED <<clientes, contribs, precos, blacklist, now, reqs, proxId>>

AprovarExigeCliente(id) ==
  /\ UNCHANGED <<blacklist, now, reqs, proxId>>
  /\ IF id = IdMalformado
       THEN /\ res' = Resp("aprovar", id, 500)
            /\ UNCHANGED <<contribs, precos, clientes>>
     ELSE IF id \notin DOMAIN contribs
               \/ contribs[id].clienteId \notin DOMAIN clientes
       THEN /\ res' = Resp("aprovar", id, 404)
            /\ UNCHANGED <<contribs, precos, clientes>>
     ELSE
       LET c == [contribs[id] EXCEPT !.status = "aprovado"]
           publica == c.produtoId # "" /\ c.mercadoId # "" /\ c.preco # 0
       IN /\ contribs' = [contribs EXCEPT ![id] = c]
          /\ IF publica /\ ~(IsObjectId(c.produtoId) /\ IsObjectId(c.mercadoId))
               THEN /\ res' = Resp("aprovar", id, 500)
                    /\ UNCHANGED <<precos, clientes>>
             ELSE
               /\ precos' = IF publica
                    THEN PrecoUpsert(precos,
                           [produtoId |-> c.produtoId, mercadoId |-> c.mercadoId,
                            preco |-> c.preco, fonte |-> "cliente",
                            autor |-> c.autor, dataAtu |-> now])
                    ELSE precos
               /\ Decisoes(clientes) < MaxDecisoes
               /\ clientes' = [clientes EXCEPT ![c.clienteId] = AprovarCliente(@)]
               /\ res' = Resp("aprovar", id, 200)

\* PATCH /api/contribuicoes/:id/aprovar
Aprovar(id) ==
  /\ UNCHANGED <<blacklist, now, reqs, proxId>>
  /\ IF id = IdMalformado
       THEN \* CastError in findByIdAndUpdate: caught, 500
            /\ res' = Resp("aprovar", id, 500)
            /\ UNCHANGED <<contribs, precos, clientes>>
     ELSE IF id \notin DOMAIN contribs
       THEN /\ res' = Resp("aprovar", id, 404)
            /\ UNCHANGED <<contribs, precos, clientes>>
     ELSE
       LET c == [contribs[id] EXCEPT !.status = "aprovado"]
           publica == c.produtoId # "" /\ c.mercadoId # "" /\ c.preco # 0
       IN /\ contribs' = [contribs EXCEPT ![id] = c]
          /\ IF publica /\ ~(IsObjectId(c.produtoId) /\ IsObjectId(c.mercadoId))
               THEN \* CastError in the Preco query: caught, 500
                    /\ res' = Resp("aprovar", id, 500)
                    /\ UNCHANGED <<precos, clientes>>
             ELSE
               /\ precos' = IF publica
                    THEN PrecoUpsert(precos,
                           [produtoId |-> c.produtoId, mercadoId |-> c.mercadoId,
                            preco |-> c.preco, fonte |-> "cliente",
                            autor |-> c.autor, dataAtu |-> now])
                    ELSE precos
               /\ c.clienteId \in DOMAIN clientes => Decisoes(clientes) < MaxDecisoes
               /\ clientes' = IF c.clienteId \in DOMAIN clientes
                    THEN [clientes EXCEPT ![c.clienteId] = AprovarCliente(@)]
                    ELSE clientes
               /\ res' = Resp("aprovar", id, 200)

RejeitarCliente(c) ==
  [c EXCEPT !.contribuicoesRejeitadas = @ + 1, !.errosConsecutivos = @ + 1]

RejeitarSemNaoEncontrada(id, motivo) ==
  /\ UNCHANGED <<precos, blacklist, now, reqs, proxId>>
  /\ IF id = IdMalformado \/ id \notin DOMAIN contribs
       THEN /\ res' = Resp("rejeitar", id, 500)
            /\ UNCHANGED <<contribs, clientes>>
     ELSE
       LET c == [contribs[id] EXCEPT !.status = "rejeitado",
                                     !.motivoRecusa = motivo]
       IN /\ contribs' = [contribs EXCEPT ![id] = c]
          /\ c.clienteId \in DOMAIN clientes => Decisoes(clientes) < MaxDecisoes
          /\ clientes' = IF c.clienteId \in DOMAIN clientes
               THEN [clientes EXCEPT ![c.clienteId] = RejeitarCliente(@)]
               ELSE clientes
          /\ res' = Resp("rejeitar", id, 200)

RejeitarPublica(id, motivo) ==
  /\ UNCHANGED <<blacklist, now, reqs, proxId>>
  /\ IF id = IdMalformado
       THEN /\ res' = Resp("rejeitar", id, 500)
            /\ UNCHANGED <<contribs, precos, clientes>>
     ELSE IF id \notin DOMAIN contribs
       THEN /\ res' = Resp("rejeitar", id, 404)
            /\ UNCHANGED <<contribs, precos, clientes>>
     ELSE
       LET c == [contribs[id] EXCEPT !.status = "rejeitado",
                                     !.motivoRecusa = motivo]
       IN /\ contribs' = [contribs EXCEPT ![id] = c]
          /\ precos' = PrecoUpsert(precos,
                         [produtoId |-> c.produtoId, mercadoId |-> c.mercadoId,
                          preco |-> c.preco, fonte |-> "cliente",
                          autor |-> c.autor, dataAtu |-> now])
          /\ c.clienteId \in DOMAIN clientes => Decisoes(clientes) < MaxDecisoes
          /\ clientes' = IF c.clienteId \in DOMAIN clientes
               THEN [clientes EXCEPT ![c.clienteId] = RejeitarCliente(@)]
               ELSE clientes
          /\ res' = Resp("rejeitar", id, 200)

\* PATCH /api/contribuicoes/:id/rejeitar
Rejeitar(id, motivo) ==
  /\ UNCHANGED <<precos, blacklist, now, reqs, proxId>>
  /\ IF id = IdMalformado
       THEN \* CastError in findByIdAndUpdate: caught, 500
            /\ res' = Resp("rejeitar", id, 500)
            /\ UNCHANGED <<contribs, clientes>>
     ELSE IF id \notin DOMAIN contribs
       THEN /\ res' = Resp("rejeitar", id, 404)
            /\ UNCHANGED <<contribs, clientes>>
     ELSE
       LET c == [contribs[id] EXCEPT !.status = "rejeitado",
                                     !.motivoRecusa = motivo]
       IN /\ contribs' = [contribs EXCEPT ![id] = c]
          /\ c.clienteId \in DOMAIN clientes => Decisoes(clientes) < MaxDecisoes
          /\ clientes' = IF c.clienteId \in DOMAIN clientes
               THEN [clientes EXCEPT ![c.clienteId] = RejeitarCliente(@)]
               ELSE clientes
          /\ res' = Resp("rejeitar", id, 200)

\* POST /api/precos
PostPrecos(user, body) ==
  /\ UNCHANGED <<clientes, contribs, blacklist, now, reqs, proxId>>
  /\ IF body.produtoId = "" \/ body.mercadoId = "" \/ ~Truthy(body.preco)
       THEN /\ res' = Resp("precos", user.id, 400)
            /\ UNCHANGED precos
     ELSE IF ~(IsObjectId(body.produtoId) /\ IsObjectId(body.mercadoId))
       THEN /\ res' = Resp("precos", user.id, 500)
            /\ UNCHANGED precos
     ELSE
       LET autor == IF user.tipo = "admin" THEN "Admin"
                    ELSE IF user.login # "" THEN user.login ELSE "Mercado"
           entry == [produtoId |-> body.produtoId, mercadoId |-> body.mercadoId,
                     preco |-> parseFloat(body.preco),
                     fonte |-> IF body.fonte # "" THEN body.fonte ELSE user.tipo,
                     autor |-> autor, dataAtu |-> now]
       IN /\ precos' = PrecoUpsert(precos, entry)
          /\ res' = Resp("precos", user.id, 201)

BloquearClienteSemLimpar(c, body) ==
  IF body.tipo = "temp" /\ Truthy(body.dias)
    THEN [c EXCEPT !.bloqueado = TRUE,
                   !.banTemporario = now + parseInt(body.dias),
                   !.motivoBloqueio = "Ban temporario por "
                                        \o ToString(body.dias.v) \o " dias"]
    ELSE [c EXCEPT !.bloqueado = TRUE,
                   !.motivoBloqueio = IF body.motivo # "" THEN body.motivo
                                      ELSE "Bloqueado pelo admin",
                   !.banPermanente = TRUE]

\* the update object built by PATCH /api/admin/clientes/:id/bloquear
BloquearCliente(c, body) ==
  IF body.tipo = "temp" /\ Truthy(body.dias)
    THEN [c EXCEPT !.bloqueado = TRUE,
                   !.banTemporario = now + parseInt(body.dias),
                   !.banPermanente = FALSE,
                   !.motivoBloqueio = "Ban temporario por "
                                        \o ToString(body.dias.v) \o " dias"]
    ELSE [c EXCEPT !.bloqueado = TRUE,
                   !.motivoBloqueio = IF body.motivo # "" THEN body.motivo
                                      ELSE "Bloqueado pelo admin",
                   !.banPermanente = TRUE,
                   !.banTemporario = Null]

\* PATCH /api/admin/clientes/:id/bloquear
Bloquear(id, body) ==
  /\ UNCHANGED <<contribs, precos, blacklist, now, reqs, proxId>>
  /\ IF id \notin DOMAIN clientes
       THEN /\ res' = Resp("bloquear", id, 404)
            /\ UNCHANGED clientes
     ELSE /\ clientes' = [clientes EXCEPT ![id] = BloquearCliente(@, body)]
          /\ res' = Resp("bloquear", id, 200)

DesbloquearClienteSemZerar(c) ==
  [c EXCEPT !.bloqueado = FALSE, !.banTemporario = Null,
            !.banPermanente = FALSE, !.motivoBloqueio = ""]

DesbloquearCliente(c) ==
  [c EXCEPT !.bloqueado = FALSE, !.banTemporario = Null,
            !.banPermanente = FALSE, !.motivoBloqueio = "",
            !.errosConsecutivos = 0]

\* PATCH /api/admin/clientes/:id/desbloquear
Desbloquear(id) ==
  /\ UNCHANGED <<contribs, precos, blacklist, now, reqs, proxId>>
  /\ IF id \notin DOMAIN clientes
       THEN /\ res' = Resp("desbloquear", id, 404)
            /\ UNCHANGED clientes
     ELSE /\ clientes' = [clientes EXCEPT ![id] = DesbloquearCliente(@)]
          /\ res' = Resp("desbloquear", id, 200)

-----------------------------------------------------------------------------
(* Registration and the blacklist *)

telNaBlacklistSemData(telefone) ==
  LET t == normTel(telefone)
  IN t \in DOMAIN blacklist /\ blacklist[t].ativo

\* telNaBlacklist: an active entry for the normalised number that has not
\* expired (the handlers only test the result for truthiness)
telNaBlacklist(telefone) ==
  LET t == normTel(telefone)
  IN /\ t \in DOMAIN blacklist
     /\ blacklist[t].ativo
     /\ blacklist[t].dataVencimento > now

\* bodies of POST /api/auth/cadastro: nome, login (lower case), senha, telefone
CadastroInputs ==
  [nome : {"Ana"}, login : {"ana", "bia"}, senha : {"segredo"},
   telefone : {Tel1a, Tel1b, Tel2}]
  \cup { [nome |-> "Ana", login |-> "ana", senha |-> "123", telefone |-> Tel2],
         [nome |-> "Ana", login |-> "ana", senha |-> "segredo", telefone |-> TelCurto],
         [nome |-> "Ana", login |-> "ana", senha |-> "segredo", telefone |-> <<>>] }

\* the bodies of two people who register with their own login and number
CadastrosComuns ==
  { [nome |-> "Ana", login |-> "ana", senha |-> "segredo", telefone |-> Tel1a],
    [nome |-> "Bia", login |-> "bia", senha |-> "segredo", telefone |-> Tel2] }

\* POST /api/auth/cadastro
Cadastro(body) ==
  /\ UNCHANGED <<contribs, precos, blacklist, now, reqs>>
  /\ LET telNorm == normTel(body.telefone)
         recusa(status) == /\ res' = Resp("cadastro", 0, status)
                           /\ UNCHANGED <<clientes, proxId>>
     IN IF body.nome = "" \/ body.login = "" \/ body.senha = ""
             \/ body.telefone = <<>>
          THEN recusa(400)
        ELSE IF Len(body.senha) < MinSenhaLen THEN recusa(400)
        ELSE IF Len(telNorm) < MinTelLen THEN recusa(400)
        ELSE IF \E k \in DOMAIN clientes : clientes[k].login = body.login
          THEN recusa(409)
        ELSE IF \E k \in DOMAIN clientes : clientes[k].telefone = telNorm
          THEN recusa(409)
        ELSE IF telNaBlacklist(telNorm) THEN recusa(403)
        ELSE /\ proxId <= MaxCadastros
             /\ clientes' = (proxId :> NovoCliente(body.nome, body.login, telNorm))
                               @@ clientes
             /\ proxId' = proxId + 1
             /\ res' = Resp("cadastro", proxId, 201)

EntradaBlacklistSoInsere(tel, motivo) ==
  IF tel \in DOMAIN blacklist THEN blacklist[tel]
  ELSE [ id |-> Cardinality(DOMAIN blacklist) + 1,
         telefone |-> tel, dataInicio |-> now,
         dataVencimento |-> setMonth(now, getMonth(now) + MesesBlacklist),
         motivo |-> IF motivo # "" THEN motivo
                    ELSE "Conta excluida por administrador",
         criadoPor |-> "admin", ativo |-> TRUE ]

\* the document written by Blacklist.findOneAndUpdate(..., {upsert:true})
EntradaBlacklist(tel, motivo) ==
  [ id |-> IF tel \in DOMAIN blacklist THEN blacklist[tel].id
           ELSE Cardinality(DOMAIN blacklist) + 1,
    telefone |-> tel, dataInicio |-> now,
    dataVencimento |-> setMonth(now, getMonth(now) + MesesBlacklist),
    motivo |-> IF motivo # "" THEN motivo
               ELSE "Conta excluida por administrador",
    criadoPor |-> "admin", ativo |-> TRUE ]

\* the telefone field of the bodies of PATCH /api/admin/clientes/:id/editar
EditarInputs == {Tel1a, Tel2}

\* PATCH /api/admin/clientes/:id/editar with a telefone in the body
EditarCliente(id, telefone) ==
  /\ UNCHANGED <<contribs, precos, blacklist, now, reqs, proxId>>
  /\ IF id \notin DOMAIN clientes
       THEN /\ res' = Resp("editar", id, 404)
            /\ UNCHANGED clientes
     ELSE IF \E k \in DOMAIN clientes \ {id} :
               clientes[k].telefone = normTel(telefone)
       THEN \* duplicate key on the unique index of telefone: caught, 500
            /\ res' = Resp("editar", id, 500)
            /\ UNCHANGED clientes
     ELSE /\ clientes' = [clientes EXCEPT ![id].telefone = normTel(telefone)]
          /\ res' = Resp("editar", id, 200)

ExcluirClienteComContribuicoes(id, motivo) ==
  /\ UNCHANGED <<precos, now, reqs, proxId>>
  /\ IF id = IdMalformado
       THEN /\ res' = Resp("excluir", id, 400)
            /\ UNCHANGED <<clientes, blacklist, contribs>>
     ELSE IF id \notin DOMAIN clientes
       THEN /\ res' = Resp("excluir", id, 404)
            /\ UNCHANGED <<clientes, blacklist, contribs>>
     ELSE LET tel == normTel(clientes[id].telefone)
          IN /\ clientes' = [k \in DOMAIN clientes \ {id} |-> clientes[k]]
             /\ contribs' = SelectSeq(contribs, LAMBDA c : c.clienteId # id)
             /\ blacklist' = (tel :> EntradaBlacklist(tel, motivo)) @@ blacklist
             /\ res' = Resp("excluir", id, 200)

ExcluirClienteSemNaoEncontrado(id, motivo) ==
  /\ UNCHANGED <<contribs, precos, now, reqs, proxId>>
  /\ IF id = IdMalformado
       THEN /\ res' = Resp("excluir", id, 400)
            /\ UNCHANGED <<clientes, blacklist>>
     ELSE IF id \notin DOMAIN clientes
       THEN /\ res' = Resp("excluir", id, 200)
            /\ UNCHANGED <<clientes, blacklist>>
     ELSE LET tel == normTel(clientes[id].telefone)
          IN /\ clientes' = [k \in DOMAIN clientes \ {id} |-> clientes[k]]
             /\ blacklist' = (tel :> EntradaBlacklist(tel, motivo)) @@ blacklist
             /\ res' = Resp("excluir", id, 200)

\* DELETE /api/admin/clientes/:id
ExcluirCliente(id, motivo) ==
  /\ UNCHANGED <<contribs, precos, now, reqs, proxId>>
  /\ IF id = IdMalformado
       THEN \* isObjId(req.params.id) is false: 400
            /\ res' = Resp("excluir", id, 400)
            /\ UNCHANGED <<clientes, blacklist>>
     ELSE IF id \notin DOMAIN clientes
       THEN /\ res' = Resp("excluir", id, 404)
            /\ UNCHANGED <<clientes, blacklist>>
     ELSE LET tel == normTel(clientes[id].telefone)
          IN /\ clientes' = [k \in DOMAIN clientes \ {id} |-> clientes[k]]
             /\ blacklist' = (tel :> EntradaBlacklist(tel, motivo)) @@ blacklist
             /\ res' = Resp("excluir", id, 200)

LiberarBlacklistSemEfeito(id) ==
  /\ UNCHANGED <<clientes, contribs, precos, blacklist, now, reqs, proxId>>
  /\ res' = Resp("liberar", id, 200)

\* DELETE /api/admin/blacklist/:id
LiberarBlacklist(id) ==
  /\ UNCHANGED <<clientes, contribs, precos, now, reqs, proxId>>
  /\ blacklist' = [t \in DOMAIN blacklist |->
                     IF blacklist[t].id = id
                       THEN [blacklist[t] EXCEPT !.ativo = FALSE]
                       ELSE blacklist[t]]
  /\ res' = Resp("liberar", id, 200)

LimparBlacklistSemData ==
  /\ UNCHANGED <<clientes, contribs, precos, now, res, reqs, proxId>>
  /\ blacklist' = [t \in DOMAIN blacklist |-> [blacklist[t] EXCEPT !.ativo = FALSE]]

\* the 24h timer: Blacklist.updateMany({dataVencimento <= now, ativo}, {ativo:false})
LimparBlacklist ==
  /\ UNCHANGED <<clientes, contribs, precos, now, res, reqs, proxId>>
  /\ blacklist' = [t \in DOMAIN blacklist |->
                     IF blacklist[t].dataVencimento <= now /\ blacklist[t].ativo
                       THEN [blacklist[t] EXCEPT !.ativo = FALSE]
                       ELSE blacklist[t]]

\* time passes
TickDays == {30, 31}
Tick(d) ==
  /\ now + d <= DiaInicial + Horizonte
  /\ now' = now + d
  /\ UNCHANGED <<clientes, contribs, precos, blacklist, res, reqs, proxId>>

\* an empty database on the starting day
InitCadastro ==
  /\ clientes = <<>>
  /\ contribs = <<>>
  /\ precos = <<>>
  /\ blacklist = <<>>
  /\ now = DiaInicial
  /\ res = Resp("none", 0, 0)
  /\ reqs = <<>>
  /\ proxId = 1

\* accounts and the blacklist while the 24h timer never fires
NextSemLimpeza ==
  \/ \E b \in CadastroInputs : Cadastro(b)
  \/ \E id \in 1..MaxCadastros : ExcluirCliente(id, "")
  \/ \E id \in 1..MaxCadastros : LiberarBlacklist(id)
  \/ \E d \in TickDays : Tick(d)

SpecSemLimpeza == InitCadastro /\ [][NextSemLimpeza]_vars

\* accounts and the blacklist
NextCadastro ==
  \/ NextSemLimpeza
  \/ LimparBlacklist

SpecCadastro == InitCadastro /\ [][NextCadastro]_vars

\* accounts from registration to deletion: contributions, decisions and the
\* administrative block on clients that registered
NextContas ==
  \/ \E b \in CadastrosComuns : Cadastro(b)
  \/ \E id \in 1..MaxCadastros : ExcluirCliente(id, "")
  \/ \E u \in Users : PostContribuicoes(u, "p1", "m1", JsNum(2))
  \/ \E id \in ContribIds : Aprovar(id)
  \/ \E id \in ContribIds : Rejeitar(id, "")
  \/ \E id \in 1..MaxCadastros, b \in BloqueiosComuns : Bloquear(id, b)
  \/ \E id \in 1..MaxCadastros : Desbloquear(id)

SpecContas == InitCadastro /\ [][NextContas]_vars

\* registration, deletion and the admin's edit of a client's number
NextEdicao ==
  \/ \E b \in CadastroInputs : Cadastro(b)
  \/ \E id \in 1..MaxCadastros : ExcluirCliente(id, "")
  \/ \E id \in 1..MaxCadastros, t \in EditarInputs : EditarCliente(id, t)

SpecEdicao == InitCadastro /\ [][NextEdicao]_vars

\* the clients of Init on the starting day of the calendar
InitAcervo ==
  /\ clientes = [id \in ClienteIds |-> NovoCliente(NomeDe(id), LoginDe(id), TelDe(id))]
  /\ contribs = <<>>
  /\ precos = <<>>
  /\ blacklist = <<>>
  /\ now = DiaInicial
  /\ res = Resp("none", 0, 0)
  /\ reqs = <<>>
  /\ proxId = 3

\* the stored contributions under every operation that follows a submission:
\* decisions, block and unblock, deletion of the account, the 24h timer
NextAcervo ==
  \/ \E u \in Users : PostContribuicoes(u, "p1", "m1", JsNum(2))
  \/ \E id \in ContribIds : Aprovar(id)
  \/ \E id \in ContribIds : Rejeitar(id, "")
  \/ Bloquear(1, [tipo |-> "perm", dias |-> JsUndef, motivo |-> "spam"])
  \/ Desbloquear(1)
  \/ ExcluirCliente(1, "")
  \/ LimparBlacklist
  \/ Tick(31)

SpecAcervo == InitAcervo /\ [][NextAcervo]_vars

\* submissions while the admin blocks and unblocks and the days pass
NextBanTemp ==
  \/ \E u \in Users : PostContribuicoes(u, "p1", "m1", JsNum(2))
  \/ \E id \in ClienteIds, b \in BloqueioInputs : Bloquear(id, b)
  \/ \E id \in ClienteIds : Desbloquear(id)
  \/ \E d \in TickDays : Tick(d)

SpecBanTemp == InitAcervo /\ [][NextBanTemp]_vars

-----------------------------------------------------------------------------
(* Client login *)

\* the password every account of the model was created with, and the
\* bodies of POST /api/auth/cliente: login, senha ("" is a missing field)
SenhaDe(c) == "segredo"
LoginInputs == [login : {"", "ana", "bia"}, senha : {"", "segredo", "errada"}]

LoginClienteSemBloqueio(body) ==
  /\ UNCHANGED <<clientes, contribs, precos, blacklist, now, reqs, proxId>>
  /\ IF body.login = "" \/ body.senha = ""
       THEN res' = Resp("login", 0, 400)
     ELSE LET ks == {k \in DOMAIN clientes : clientes[k].login = body.login}
          IN IF ks = {} THEN res' = Resp("login", 0, 401)
             ELSE LET k == CHOOSE x \in ks : TRUE
                  IN IF body.senha # SenhaDe(clientes[k])
                       THEN res' = Resp("login", k, 401)
                     ELSE res' = Resp("login", k, 200)

\* POST /api/auth/cliente
LoginCliente(body) ==
  /\ UNCHANGED <<clientes, contribs, precos, blacklist, now, reqs, proxId>>
  /\ IF body.login = "" \/ body.senha = ""
       THEN res' = Resp("login", 0, 400)
     ELSE LET ks == {k \in DOMAIN clientes : clientes[k].login = body.login}
          IN IF ks = {} THEN res' = Resp("login", 0, 401)
             ELSE LET k == CHOOSE x \in ks : TRUE
                  IN IF body.senha # SenhaDe(clientes[k])
                       THEN res' = Resp("login", k, 401)
                     ELSE IF clientes[k].banPermanente
                       THEN res' = Resp("login", k, 403)
                     ELSE IF clientes[k].bloqueado
                       THEN res' = Resp("login", k, 403)
                     ELSE res' = Resp("login", k, 200)

-----------------------------------------------------------------------------
(* The decision handlers step by step: every await is a point where another *)
(* request can run.                                                         *)

Slots == 1..MaxReqs

NullDoc == NovaContribuicao("", "", 0, "", 0)

\* a request: the route (op), req.params.id, req.body.motivo, where the
\* handler stands (pc), the document c it holds and the status it answered
\* (hit and entry belong to a price upsert in progress, see below)
NullEntry == [produtoId |-> "", mercadoId |-> "", preco |-> 0, fonte |-> "",
              autor |-> "", dataAtu |-> 0]
Req(op, id, motivo, pc, c, status) ==
  [op |-> op, id |-> id, motivo |-> motivo, pc |-> pc, c |-> c, status |-> status,
   hit |-> 0, entry |-> NullEntry]

\* an administrator sends PATCH /api/contribuicoes/:id/aprovar or /rejeitar
Receber(op, id, motivo) ==
  /\ Len(reqs) < MaxReqs
  /\ reqs' = Append(reqs, Req(op, id, motivo, "contrib", NullDoc, 0))
  /\ UNCHANGED <<clientes, contribs, precos, blacklist, now, res, proxId>>

\* const c = await Contribuicao.findByIdAndUpdate(id, {status...}, {new:true})
PassoContrib(r) ==
  /\ r \in DOMAIN reqs /\ reqs[r].pc = "contrib"
  /\ UNCHANGED <<clientes, precos, blacklist, now, res, proxId>>
  /\ LET q == reqs[r]
     IN IF q.id \notin DOMAIN contribs
          THEN /\ reqs' = [reqs EXCEPT ![r].pc = "done", ![r].status = 404]
               /\ UNCHANGED contribs
          ELSE LET c == IF q.op = "aprovar"
                          THEN [contribs[q.id] EXCEPT !.status = "aprovado"]
                          ELSE [contribs[q.id] EXCEPT !.status = "rejeitado",
                                                      !.motivoRecusa = q.motivo]
               IN /\ contribs' = [contribs EXCEPT ![q.id] = c]
                  /\ reqs' = [reqs EXCEPT ![r].c = c,
                        ![r].pc = IF q.op = "aprovar" THEN "preco" ELSE "cliente"]

\* await Preco.findOneAndUpdate(..., {upsert:true}) in aprovar
PassoPreco(r) ==
  /\ r \in DOMAIN reqs /\ reqs[r].pc = "preco"
  /\ UNCHANGED <<clientes, contribs, blacklist, now, res, proxId>>
  /\ LET c == reqs[r].c
         publica == c.produtoId # "" /\ c.mercadoId # "" /\ c.preco # 0
     IN IF publica /\ ~(IsObjectId(c.produtoId) /\ IsObjectId(c.mercadoId))
          THEN /\ reqs' = [reqs EXCEPT ![r].pc = "done", ![r].status = 500]
               /\ UNCHANGED precos
          ELSE /\ precos' = IF publica
                    THEN PrecoUpsert(precos,
                           [produtoId |-> c.produtoId, mercadoId |-> c.mercadoId,
                            preco |-> c.preco, fonte |-> "cliente",
                            autor |-> c.autor, dataAtu |-> now])
                    ELSE precos
               /\ reqs' = [reqs EXCEPT ![r].pc = "cliente"]

\* if (c.clienteId) await Cliente.findByIdAndUpdate(...); res.json(...)
PassoCliente(r) ==
  /\ r \in DOMAIN reqs /\ reqs[r].pc = "cliente"
  /\ UNCHANGED <<contribs, precos, blacklist, now, res, proxId>>
  /\ LET q == reqs[r]
         k == q.c.clienteId
     IN /\ clientes' =
             IF k \notin DOMAIN clientes THEN clientes
             ELSE IF q.op = "aprovar"
               THEN [clientes EXCEPT ![k] = AprovarCliente(@)]
               ELSE [clientes EXCEPT ![k] = RejeitarCliente(@)]
        /\ reqs' = [reqs EXCEPT ![r].pc = "done", ![r].status = 200]

\* two pending contributions, one of each client
InitConc ==
  /\ clientes = [id \in ClienteIds |-> NovoCliente(NomeDe(id), LoginDe(id), TelDe(id))]
  /\ contribs = << NovaContribuicao("p1", "m1", 2, NomeDe(1), 1),
                   NovaContribuicao("p1", "m1", 3, NomeDe(2), 2) >>
  /\ precos = <<>>
  /\ blacklist = <<>>
  /\ now = 0
  /\ res = Resp("none", 0, 0)
  /\ reqs = <<>>
  /\ proxId = 3

NextConc ==
  \/ \E id \in ContribIds : Receber("aprovar", id, "")
  \/ \E id \in ContribIds, mo \in Motivos : Receber("rejeitar", id, mo)
  \/ \E r \in Slots : PassoContrib(r)
  \/ \E r \in Slots : PassoPreco(r)
  \/ \E r \in Slots : PassoCliente(r)

SpecConc == InitConc /\ [][NextConc]_vars

\* two pending contributions of client 1, who was rejected before and, the
\* rejeitar route never blocking, is not blocked
InitRejeicoes ==
  /\ clientes = [id \in ClienteIds |->
                   IF id = 1
                     THEN [NovoCliente(NomeDe(id), LoginDe(id), TelDe(id))
                             EXCEPT !.errosConsecutivos = ErrosAnteriores,
                                    !.contribuicoesRejeitadas = ErrosAnteriores]
                     ELSE NovoCliente(NomeDe(id), LoginDe(id), TelDe(id))]
  /\ contribs = << NovaContribuicao("p1", "m1", 2, NomeDe(1), 1),
                   NovaContribuicao("p2", "m1", 3, NomeDe(1), 1) >>
  /\ precos = <<>>
  /\ blacklist = <<>>
  /\ now = 0
  /\ res = Resp("none", 0, 0)
  /\ reqs = <<>>
  /\ proxId = 3

SpecRejeicoes == InitRejeicoes /\ [][NextConc]_vars

\* three pending contributions of client 1, whom the admin has blocked since
\* they were submitted
InitReincidencia ==
  /\ clientes = [id \in ClienteIds |->
                   IF id = 1
                     THEN BloquearCliente(
                            NovoCliente(NomeDe(id), LoginDe(id), TelDe(id)),
                            [tipo |-> "perm", dias |-> JsUndef, motivo |-> "spam"])
                     ELSE NovoCliente(NomeDe(id), LoginDe(id), TelDe(id))]
  /\ contribs = << NovaContribuicao("p1", "m1", 2, NomeDe(1), 1),
                   NovaContribuicao("p2", "m1", 3, NomeDe(1), 1),
                   NovaContribuicao("p1", "m2", 4, NomeDe(1), 1) >>
  /\ precos = <<>>
  /\ blacklist = <<>>
  /\ now = 0
  /\ res = Resp("none", 0, 0)
  /\ reqs = <<>>
  /\ proxId = 3

\* the admin unblocks and blocks client 1 and decides the contributions
\* that are pending
NextReincidencia ==
  \/ Desbloquear(1)
  \/ Bloquear(1, [tipo |-> "perm", dias |-> JsUndef, motivo |-> "spam"])
  \/ \E id \in DOMAIN contribs :
       contribs[id].status = "pendente" /\ Rejeitar(id, "")
  \/ \E id \in DOMAIN contribs :
       contribs[id].status = "pendente" /\ Aprovar(id)

SpecReincidencia == InitReincidencia /\ [][NextReincidencia]_vars

-----------------------------------------------------------------------------
(* The price upsert step by step.  Preco has no unique index on (produtoId,  *)
(* mercadoId), so the database runs findOneAndUpdate(..., {upsert:true}) as *)
(* a query followed by an update of the document found or, when there was   *)
(* none, an insert; other operations can run in between.                    *)

\* a client, market or administrator sends POST /api/precos
ReceberPreco(user, body) ==
  /\ Len(reqs) < MaxReqs
  /\ UNCHANGED <<clientes, contribs, precos, blacklist, now, res, proxId>>
  /\ LET r == Req("precos", user.id, "", "busca", NullDoc, 0)
     IN IF body.produtoId = "" \/ body.mercadoId = "" \/ ~Truthy(body.preco)
          THEN reqs' = Append(reqs, [r EXCEPT !.pc = "done", !.status = 400])
        ELSE IF ~(IsObjectId(body.produtoId) /\ IsObjectId(body.mercadoId))
          THEN reqs' = Append(reqs, [r EXCEPT !.pc = "done", !.status = 500])
        ELSE
          LET autor == IF user.tipo = "admin" THEN "Admin"
                       ELSE IF user.login # "" THEN user.login ELSE "Mercado"
              entry == [produtoId |-> body.produtoId, mercadoId |-> body.mercadoId,
                        preco |-> parseFloat(body.preco),
                        fonte |-> IF body.fonte # "" THEN body.fonte ELSE user.tipo,
                        autor |-> autor, dataAtu |-> now]
          IN reqs' = Append(reqs, [r EXCEPT !.entry = entry])

\* aprovar reaches its Preco.findOneAndUpdate: if (c.produtoId && ...)
PrecoPrepara(r) ==
  /\ r \in DOMAIN reqs /\ reqs[r].pc = "preco"
  /\ UNCHANGED <<clientes, contribs, precos, blacklist, now, res, proxId>>
  /\ LET c == reqs[r].c
         publica == c.produtoId # "" /\ c.mercadoId # "" /\ c.preco # 0
     IN IF ~publica THEN reqs' = [reqs EXCEPT ![r].pc = "cliente"]
        ELSE IF ~(IsObjectId(c.produtoId) /\ IsObjectId(c.mercadoId))
          THEN reqs' = [reqs EXCEPT ![r].pc = "done", ![r].status = 500]
        ELSE reqs' = [reqs EXCEPT ![r].pc = "busca",
               ![r].entry = [produtoId |-> c.produtoId, mercadoId |-> c.mercadoId,
                             preco |-> c.preco, fonte |-> "cliente",
                             autor |-> c.autor, dataAtu |-> now]]

\* the query of the upsert: the first document with the pair, if any
PrecoBusca(r) ==
  /\ r \in DOMAIN reqs /\ reqs[r].pc = "busca"
  /\ UNCHANGED <<clientes, contribs, precos, blacklist, now, res, proxId>>
  /\ LET e == reqs[r].entry
         hits == PrecoMatches(precos, e.produtoId, e.mercadoId)
     IN reqs' = [reqs EXCEPT ![r].pc = "grava",
                             ![r].hit = IF hits = {} THEN 0 ELSE Min(hits)]

\* the write of the upsert: update the document found, insert when none was
PrecoGrava(r) ==
  /\ r \in DOMAIN reqs /\ reqs[r].pc = "grava"
  /\ UNCHANGED <<clientes, contribs, blacklist, now, res, proxId>>
  /\ LET q == reqs[r]
     IN /\ precos' = IF q.hit = 0 THEN Append(precos, q.entry)
                      ELSE [precos EXCEPT ![q.hit] = q.entry]
        /\ reqs' = IF q.op = "aprovar"
                     THEN [reqs EXCEPT ![r].pc = "cliente"]
                     ELSE [reqs EXCEPT ![r].pc = "done", ![r].status = 201]

\* approvals and direct price writes, one database step at a time
NextUpsert ==
  \/ \E id \in ContribIds : Receber("aprovar", id, "")
  \/ \E u \in Users, b \in TabelaInputs : ReceberPreco(u, b)
  \/ \E r \in Slots : PassoContrib(r)
  \/ \E r \in Slots : PrecoPrepara(r)
  \/ \E r \in Slots : PrecoBusca(r)
  \/ \E r \in Slots : PrecoGrava(r)
  \/ \E r \in Slots : PassoCliente(r)

SpecUpsert == InitConc /\ [][NextUpsert]_vars

\* DELETE /api/admin/clientes/:id, one step per await: a request holds the
\* number (tel) of the client it found
ReqExcluir(id, motivo, pc, tel, status) ==
  [op |-> "excluir", id |-> id, motivo |-> motivo, pc |-> pc, tel |-> tel,
   status |-> status]

\* an administrator sends DELETE /api/admin/clientes/:id
ReceberExcluir(id, motivo) ==
  /\ Len(reqs) < MaxReqs
  /\ reqs' = Append(reqs, ReqExcluir(id, motivo, "acha", <<>>, 0))
  /\ UNCHANGED <<clientes, contribs, precos, blacklist, now, res, proxId>>

\* const c = await Cliente.findById(id); const tel = normTel(c.telefone)
ExcluirAcha(r) ==
  /\ r \in DOMAIN reqs /\ reqs[r].pc = "acha"
  /\ UNCHANGED <<clientes, contribs, precos, blacklist, now, res, proxId>>
  /\ reqs' = IF reqs[r].id \notin DOMAIN clientes
               THEN [reqs EXCEPT ![r].pc = "done", ![r].status = 404]
               ELSE [reqs EXCEPT ![r].pc = "apaga",
                                 ![r].tel = normTel(clientes[reqs[r].id].telefone)]

\* await Cliente.findByIdAndDelete(id)
ExcluirApaga(r) ==
  /\ r \in DOMAIN reqs /\ reqs[r].pc = "apaga"
  /\ UNCHANGED <<contribs, precos, blacklist, now, res, proxId>>
  /\ clientes' = [k \in DOMAIN clientes \ {reqs[r].id} |-> clientes[k]]
  /\ reqs' = [reqs EXCEPT ![r].pc = "blacklist"]

\* await Blacklist.findOneAndUpdate({telefone: tel}, ..., {upsert:true});
\* res.json(...)
ExcluirBlacklist(r) ==
  /\ r \in DOMAIN reqs /\ reqs[r].pc = "blacklist"
  /\ UNCHANGED <<clientes, contribs, precos, now, res, proxId>>
  /\ blacklist' = (reqs[r].tel :> EntradaBlacklist(reqs[r].tel, reqs[r].motivo))
                     @@ blacklist
  /\ reqs' = [reqs EXCEPT ![r].pc = "done", ![r].status = 200]

\* registrations while deletions are in progress
NextExclusao ==
  \/ \E b \in CadastroInputs : Cadastro(b)
  \/ \E id \in 1..MaxCadastros : ReceberExcluir(id, "")
  \/ \E r \in Slots : ExcluirAcha(r)
  \/ \E r \in Slots : ExcluirApaga(r)
  \/ \E r \in Slots : ExcluirBlacklist(r)

SpecExclusao == InitCadastro /\ [][NextExclusao]_vars

-----------------------------------------------------------------------------
Init ==
  /\ clientes = [id \in ClienteIds |-> NovoCliente(NomeDe(id), LoginDe(id), TelDe(id))]
  /\ contribs = <<>>
  /\ precos = <<>>
  /\ blacklist = <<>>
  /\ now = 0
  /\ res = Resp("none", 0, 0)
  /\ reqs = <<>>
  /\ proxId = 3

\* moderation: submissions, decisions and the administrative block
Next ==
  \/ \E u \in Users, x \in PrecosAceites : PostContribuicoes(u, "p1", "m1", x)
  \/ \E id \in ContribIds : Aprovar(id)
  \/ \E id \in ContribIds, mo \in Motivos : Rejeitar(id, mo)
  \/ \E id \in ClienteIds, b \in BloqueiosComuns : Bloquear(id, b)
  \/ \E id \in ClienteIds : Desbloquear(id)

Spec == Init /\ [][Next]_vars

\* the price table under direct writes and approvals
NextTabela ==
  \/ \E u \in Users, x \in PrecosAceites : PostContribuicoes(u, "p1", "m1", x)
  \/ \E id \in ContribIds : Aprovar(id)
  \/ \E u \in Users, b \in TabelaInputs : PostPrecos(u, b)

SpecTabela == Init /\ [][NextTabela]_vars

\* decisions on existing, absent and malformed identifiers
NextDecisao ==
  \/ \E u \in Users, x \in PrecosAceites : PostContribuicoes(u, "p1", "m1", x)
  \/ \E id \in ContribIds \cup {IdMalformado} : Aprovar(id)
  \/ \E id \in ContribIds \cup {IdMalformado}, mo \in Motivos : Rejeitar(id, mo)

SpecDecisao == Init /\ [][NextDecisao]_vars

\* submissions against the administrative block, over every kind of body
NextSubmit ==
  \/ \E u \in Users, p \in ProdutoInputs, m \in MercadoInputs, x \in PrecoInputs :
       PostContribuicoes(u, p, m, x)
  \/ \E id \in ClienteIds, b \in BloqueioInputs : Bloquear(id, b)
  \/ \E id \in ClienteIds : Desbloquear(id)

SpecSubmit == Init /\ [][NextSubmit]_vars

\* logins against the administrative block and the deletion of accounts
NextLogin ==
  \/ \E b \in LoginInputs : LoginCliente(b)
  \/ \E id \in ClienteIds, b \in BloqueioInputs : Bloquear(id, b)
  \/ \E id \in ClienteIds : Desbloquear(id)
  \/ \E id \in ClienteIds \cup {IdMalformado} : ExcluirCliente(id, "")

SpecLogin == Init /\ [][NextLogin]_vars

\* submissions with admins listening on the event stream, and decisions
NextNotifica ==
  \/ \E u \in Users, x \in PrecosAceites, a \in AdminsOnlineInputs :
       PostContribuicoesSSE(u, "p1", "m1", x, a)
  \/ \E id \in ContribIds : Aprovar(id)
  \/ \E id \in ContribIds, mo \in Motivos : Rejeitar(id, mo)

SpecNotifica == Init /\ [][NextNotifica]_vars

\* the admin's listing between submissions and decisions
NextLista ==
  \/ \E u \in Users, x \in PrecosAceites : PostContribuicoes(u, "p1", "m1", x)
  \/ \E id \in ContribIds : Aprovar(id)
  \/ \E id \in ContribIds, mo \in Motivos : Rejeitar(id, mo)
  \/ \E u \in Users : GetContribuicoes(u)

SpecLista == Init /\ [][NextLista]_vars

\* decisions on contributions whose product reference may not be the id of
\* a product
NextFalha ==
  \/ \E u \in Users, p \in ProdutoInputs : PostContribuicoes(u, p, "m1", JsNum(2))
  \/ \E id \in ContribIds : Aprovar(id)
  \/ \E id \in ContribIds : Rejeitar(id, "")

SpecFalha == Init /\ [][NextFalha]_vars

-----------------------------------------------------------------------------
(* Moderation decisions *)

Decidida(i) == i \in DOMAIN contribs /\ contribs[i].status # "pendente"

\* the step is the answer to a decision call on contribution i
Decisao(i) == res'.op \in {"aprovar", "rejeitar"} /\ res'.id = i

\* C1: an approve or reject call on a contribution that is no longer
\* pending fails (AlreadyDecided) and leaves the contribution, the price
\* table and every client's trust state unchanged.
C1_AlreadyDecided ==
  [][\A i \in ContribIds :
       (Decidida(i) /\ Decisao(i))
         => /\ res'.status \notin {200, 201}
            /\ UNCHANGED <<contribs, precos, clientes>>]_vars

\* the handler of request r has written the status and not yet answered
AposDecidir(r) == r \in DOMAIN reqs /\ reqs[r].pc \in {"preco", "cliente"}

\* request r has not yet written to contribution i
AntesDeDecidir(r, i) == reqs[r].id # i \/ reqs[r].pc = "contrib"

\* C2: of two decision requests that run concurrently on the same pending
\* contribution only one gets past the status write to apply its side
\* effects; the other observes AlreadyDecided.
C2_AtMostOnce ==
  \A r1, r2 \in DOMAIN reqs :
    ( /\ r1 # r2
      /\ reqs[r1].id = reqs[r2].id
      /\ \A r3 \in DOMAIN reqs \ {r1, r2} : AntesDeDecidir(r3, reqs[r1].id) )
      => ~(AposDecidir(r1) /\ AposDecidir(r2))

\* C3: the status of a contribution only moves pendente -> aprovado or
\* pendente -> rejeitado; a decided contribution keeps its status and its
\* rejection reason for ever.
C3_StatusTerminal ==
  [][\A i \in DOMAIN contribs :
       contribs[i].status # "pendente"
         => /\ contribs'[i].status = contribs[i].status
            /\ contribs'[i].motivoRecusa = contribs[i].motivoRecusa]_vars

\* C4: after a successful approve of a contribution for (P, M, X) the price
\* table holds an entry for (P, M) with price X, source 'cliente' and the
\* contribution's author.
C4_ApprovePublishes ==
  [][(res'.op = "aprovar" /\ res'.status = 200)
       => LET c == contribs'[res'.id]
          IN \E j \in 1..Len(precos') :
               /\ precos'[j].produtoId = c.produtoId
               /\ precos'[j].mercadoId = c.mercadoId
               /\ precos'[j].preco = c.preco
               /\ precos'[j].fonte = "cliente"
               /\ precos'[j].autor = c.autor]_vars

-----------------------------------------------------------------------------
(* Client trust state *)

\* the step is the successful decision op on a contribution of client k
DecisaoDe(op, k) ==
  /\ res'.op = op /\ res'.status = 200
  /\ res'.id \in DOMAIN contribs
  /\ contribs[res'.id].clienteId = k

\* C5: each successful approve of a client's contribution sets
\* errosConsecutivos to 0 and adds 1 to totalContribuicoes; each successful
\* reject adds 1 to errosConsecutivos and 1 to contribuicoesRejeitadas.
C5_TrustCounters ==
  [][\A k \in DOMAIN clientes :
       /\ DecisaoDe("aprovar", k)
            => /\ clientes'[k].errosConsecutivos = 0
               /\ clientes'[k].totalContribuicoes
                    = clientes[k].totalContribuicoes + 1
       /\ DecisaoDe("rejeitar", k)
            => /\ clientes'[k].errosConsecutivos
                    = clientes[k].errosConsecutivos + 1
               /\ clientes'[k].contribuicoesRejeitadas
                    = clientes[k].contribuicoesRejeitadas + 1]_vars

\* an approval has just reset the streak of a client with earlier rejections
C5_Witness ==
  /\ res.op = "aprovar" /\ res.status = 200
  /\ LET k == contribs[res.id].clienteId
     IN /\ k \in DOMAIN clientes
        /\ clientes[k].contribuicoesRejeitadas >= 2
        /\ clientes[k].totalContribuicoes = 1
        /\ clientes[k].errosConsecutivos = 0

\* C6: the reject that brings a not-yet-blocked client's errosConsecutivos
\* to 3 also sets bloqueado with kind automatic (neither permanent nor
\* temporary) and a reason; a reject of an already blocked client changes
\* neither the flag, the kind nor the reason.
C6_AutoBlock ==
  [][\A k \in DOMAIN clientes :
       DecisaoDe("rejeitar", k)
         => IF clientes[k].bloqueado
              THEN /\ clientes'[k].bloqueado
                   /\ clientes'[k].banPermanente = clientes[k].banPermanente
                   /\ clientes'[k].banTemporario = clientes[k].banTemporario
                   /\ clientes'[k].motivoBloqueio = clientes[k].motivoBloqueio
              ELSE clientes'[k].errosConsecutivos = LimiteErros
                     => /\ clientes'[k].bloqueado
                        /\ ~clientes'[k].banPermanente
                        /\ clientes'[k].banTemporario = Null
                        /\ clientes'[k].motivoBloqueio # ""]_vars

\* C7: in every reachable state errosConsecutivos >= 3 implies bloqueado.
C7_ErrorsImplyBlocked ==
  \A k \in DOMAIN clientes :
    clientes[k].errosConsecutivos >= LimiteErros => clientes[k].bloqueado

-----------------------------------------------------------------------------
(* Submission *)

\* price > 0 and well-formed product and market references
ValidInput(produtoId, mercadoId, preco) ==
  /\ IsObjectId(produtoId) /\ IsObjectId(mercadoId)
  /\ preco.t # "undefined" /\ parseFloat(preco) > 0

Bloqueado(user) ==
  user.tipo = "cliente" /\ user.id \in DOMAIN clientes
    /\ clientes[user.id].bloqueado

Desbloqueado(user) ==
  user.tipo = "cliente" /\ user.id \in DOMAIN clientes
    /\ ~clientes[user.id].bloqueado

\* exactly one contribution was added, and it is pending
UmaNovaPendente ==
  /\ Len(contribs') = Len(contribs) + 1
  /\ SubSeq(contribs', 1, Len(contribs)) = contribs
  /\ contribs'[Len(contribs')].status = "pendente"

Liberada(t) == \E id \in 1..MaxCadastros : blacklist[t].id = id /\ LiberarBlacklist(id)

\* the step deletes the account id and answers 200
Excluida(id) ==
  res'.op = "excluir" /\ res'.status = 200 /\ res'.id = id /\ ExcluirCliente(id, "")

\* C9 (as stated): while the 24h timer never fires, a number is blacklisted
\* from the moment the deletion of its account completes, stays blacklisted
\* across every step that ends before the entry's expiry, and is not
\* blacklisted at any instant at or after that expiry.
C9_BlockedUntilExpiry ==
  [][ /\ \A id \in DOMAIN clientes : \A tel \in {clientes[id].telefone} :
           Excluida(id) => telNaBlacklist(tel)'
      /\ \A t \in DOMAIN blacklist :
           (telNaBlacklist(t) /\ now' < blacklist'[t].dataVencimento)
             => telNaBlacklist(t)'
      /\ \A t \in DOMAIN blacklist' :
           now' >= blacklist'[t].dataVencimento => ~telNaBlacklist(t)' ]_vars

\* C9 (amended): the same, except that a step in which an administrator
\* releases the entry ends the block before the expiry.
C9_BlockedUntilExpiryOrRelease ==
  [][ /\ \A id \in DOMAIN clientes : \A tel \in {clientes[id].telefone} :
           Excluida(id) => telNaBlacklist(tel)'
      /\ \A t \in DOMAIN blacklist :
           (telNaBlacklist(t) /\ now' < blacklist'[t].dataVencimento
              /\ ~Liberada(t))
             => telNaBlacklist(t)'
      /\ \A t \in DOMAIN blacklist' :
           now' >= blacklist'[t].dataVencimento => ~telNaBlacklist(t)' ]_vars

\* an entry written by a deletion, never released nor swept, has expired
C9_Witness ==
  \E t \in DOMAIN blacklist :
    /\ blacklist[t].ativo
    /\ blacklist[t].dataInicio < blacklist[t].dataVencimento
    /\ now >= blacklist[t].dataVencimento
    /\ ~telNaBlacklist(t)

\* two identifiers with the same digits once every other character is dropped
MesmosDigitos(a, b) == SelectSeq(a, IsDigit) = SelectSeq(b, IsDigit)

\* an active, unexpired entry for an identifier with the digits of tel
EntradaVigente(tel) ==
  \E t \in DOMAIN blacklist :
    /\ blacklist[t].ativo
    /\ blacklist[t].dataVencimento > now
    /\ MesmosDigitos(blacklist[t].telefone, tel)

\* C10: a registration whose contact identifier has the digits of an active,
\* unexpired blacklist entry is refused and creates no client, however the
\* identifier is punctuated or spaced.
C10_BlacklistedRegistration ==
  [][ \A b \in CadastroInputs :
        (res'.op = "cadastro" /\ Cadastro(b) /\ EntradaVigente(b.telefone))
          => (res'.status # 201 /\ clientes' = clientes) ]_vars

\* a punctuated form of the blacklisted number has just been refused
C10_Witness ==
  /\ res.op = "cadastro" /\ res.status = 403
  /\ DOMAIN blacklist = {Tel1}
  /\ blacklist[Tel1].ativo /\ blacklist[Tel1].dataVencimento > now
  /\ \A k \in DOMAIN clientes : clientes[k].telefone # Tel1

-----------------------------------------------------------------------------
(* Registration against the blacklist *)

\* the body passes the field, password and number checks
BemFormado(b) ==
  /\ b.nome # "" /\ b.login # "" /\ b.senha # "" /\ b.telefone # <<>>
  /\ Len(b.senha) >= MinSenhaLen
  /\ Len(SelectSeq(b.telefone, IsDigit)) >= MinTelLen

\* no existing client has the login or the digits of the number
Livre(b) ==
  \A k \in DOMAIN clientes :
    clientes[k].login # b.login /\ ~MesmosDigitos(clientes[k].telefone, b.telefone)

\* the entry for the digits of tel, if any, has expired
EntradaVencida(tel) ==
  /\ \E t \in DOMAIN blacklist : MesmosDigitos(blacklist[t].telefone, tel)
  /\ \A t \in DOMAIN blacklist :
       MesmosDigitos(blacklist[t].telefone, tel) => blacklist[t].dataVencimento <= now

\* the step created exactly one client, with the digits of tel as its number
UmNovoCliente(tel) ==
  \E k \in DOMAIN clientes' \ DOMAIN clientes :
    /\ DOMAIN clientes' = DOMAIN clientes \cup {k}
    /\ \A j \in DOMAIN clientes : clientes'[j] = clientes[j]
    /\ clientes'[k].telefone = SelectSeq(tel, IsDigit)

\* C11: a registration refused because of the blacklist answers Conflict
\* (409), not Forbidden (403) nor InvalidInput (400), and creates no client;
\* the same registration made once the entry has expired answers 201 and
\* creates the client.
C11_BlacklistConflict ==
  [][ \A b \in CadastroInputs :
        (res'.op = "cadastro" /\ Cadastro(b) /\ BemFormado(b) /\ Livre(b))
          => /\ EntradaVigente(b.telefone)
                  => (res'.status = 409 /\ clientes' = clientes)
             /\ EntradaVencida(b.telefone)
                  => (res'.status = 201 /\ UmNovoCliente(b.telefone)) ]_vars

-----------------------------------------------------------------------------
(* Price table *)

\* C12: in every reachable state the price table holds at most one entry
\* per (produtoId, mercadoId) pair, also when approvals and direct price
\* writes for the same pair interleave the steps of their upserts.
C12_OneEntryPerPair ==
  \A i, j \in 1..Len(precos) :
    (precos[i].produtoId = precos[j].produtoId
       /\ precos[i].mercadoId = precos[j].mercadoId) => i = j

-----------------------------------------------------------------------------
(* Concurrent rejections *)

\* request r is a rejection that has answered 200
Rejeitou(r) ==
  reqs[r].op = "rejeitar" /\ reqs[r].pc = "done" /\ reqs[r].status = 200

\* the only two requests of the run are rejections of two contributions of
\* client k, and both have answered
DuasRejeicoes(k) ==
  /\ Len(reqs) = 2
  /\ Rejeitou(1) /\ Rejeitou(2)
  /\ reqs[1].id # reqs[2].id
  /\ reqs[1].c.clienteId = k /\ reqs[2].c.clienteId = k

\* the counters of client k have each grown by exactly 2
CresceramDois(k) ==
  /\ clientes[k].errosConsecutivos = ErrosAnteriores + 2
  /\ clientes[k].contribuicoesRejeitadas = ErrosAnteriores + 2

\* C13: after two rejections of contributions of one client that ran
\* concurrently, errosConsecutivos and contribuicoesRejeitadas have each
\* grown by exactly 2, and the client is blocked if the resulting
\* errosConsecutivos reaches 3.
C13_NoLostRejection ==
  DuasRejeicoes(1)
    => /\ CresceramDois(1)
       /\ clientes[1].errosConsecutivos >= LimiteErros => clientes[1].bloqueado

-----------------------------------------------------------------------------
(* The blacklist lookup and the 24h timer *)

\* contact identifiers as callers may write them
Identificadores == {Tel1, Tel1a, Tel1b, Tel2, TelCurto}

\* an entry for the digits of tel exists, is active and expires after now
Vigente(tel) ==
  \E t \in DOMAIN blacklist :
    /\ t = SelectSeq(tel, IsDigit)
    /\ blacklist[t].ativo
    /\ blacklist[t].dataVencimento > now

\* C14: the blacklist lookup of an identifier is true iff an entry for the
\* normalised identifier exists that is active and expires after now; so a
\* run of the 24h timer changes the result of the lookup for no identifier.
C14_LookupIgnoresSweeper ==
  [][ /\ \A tel \in Identificadores : telNaBlacklist(tel)' <=> Vigente(tel)'
      /\ LimparBlacklist
           => \A tel \in Identificadores :
                telNaBlacklist(tel)' <=> telNaBlacklist(tel) ]_vars

\* the timer has deactivated the expired entry a deletion had written
C14_Witness ==
  /\ res.op = "excluir" /\ res.status = 200
  /\ \E t \in DOMAIN blacklist :
       /\ DOMAIN blacklist = {t}
       /\ ~blacklist[t].ativo
       /\ blacklist[t].dataVencimento <= now

\* C15: a run of the 24h timer deactivates exactly the active entries that
\* expire at or before now and changes no other entry or field (an entry
\* that expires later stays as it is); after it no entry is left for a
\* second run at the same instant to change.
C15_SweepExact ==
  [][ LimparBlacklist
        => /\ DOMAIN blacklist' = DOMAIN blacklist
           /\ \A t \in DOMAIN blacklist :
                /\ blacklist'[t].ativo =
                     (blacklist[t].ativo /\ blacklist[t].dataVencimento > now)
                /\ [blacklist'[t] EXCEPT !.ativo = TRUE]
                     = [blacklist[t] EXCEPT !.ativo = TRUE]
                /\ ~(blacklist'[t].ativo /\ blacklist'[t].dataVencimento <= now')
           /\ UNCHANGED <<clientes, contribs, precos, now>> ]_vars

\* the timer has deactivated an expired entry and left its other fields as
\* the deletion wrote them
C15_Witness ==
  /\ res.op = "excluir" /\ res.status = 200
  /\ DOMAIN blacklist = {Tel1}
  /\ ~blacklist[Tel1].ativo
  /\ blacklist[Tel1].telefone = Tel1
  /\ blacklist[Tel1].dataInicio = DiaInicial
  /\ blacklist[Tel1].dataVencimento
       = setMonth(DiaInicial, getMonth(DiaInicial) + MesesBlacklist)
  /\ blacklist[Tel1].dataVencimento <= now

-----------------------------------------------------------------------------
(* Decisions on absent contributions *)

\* C16: an approve or reject call with a well-formed identifier of no
\* existing contribution answers NotFound (404) and changes no
\* contribution, price entry or client trust state.
C16_NotFound ==
  [][ \A id \in ContribIds :
        (res'.op \in {"aprovar", "rejeitar"} /\ res'.id = id
           /\ id \notin DOMAIN contribs
           /\ (Aprovar(id) \/ \E mo \in Motivos : Rejeitar(id, mo)))
          => /\ res'.status = 404
             /\ UNCHANGED <<contribs, precos, clientes>> ]_vars

\* a reject of an absent contribution has just been refused, with a
\* contribution, a price and a trust counter in place
C16_Witness ==
  /\ res.op = "rejeitar" /\ res.status = 404
  /\ res.id \notin DOMAIN contribs
  /\ Len(contribs) = 1 /\ Len(precos) = 1
  /\ clientes[contribs[1].clienteId].totalContribuicoes = 1

-----------------------------------------------------------------------------
(* Submitted prices *)

\* C17: a submit with a price that is zero or negative answers InvalidInput
\* (400) and creates no contribution, so every stored contribution has a
\* price above zero.
C17_PositivePrice ==
  [][ /\ \A u \in Users, p \in Produtos, m \in Mercados, x \in PrecoInputs :
           (res'.op = "submit" /\ res'.id = u.id /\ PostContribuicoes(u, p, m, x)
              /\ Desbloqueado(u) /\ x.t # "undefined" /\ parseFloat(x) <= 0)
             => (res'.status = 400 /\ contribs' = contribs)
      /\ \A i \in DOMAIN contribs' : contribs'[i].preco > 0 ]_vars

-----------------------------------------------------------------------------
(* Frame of a rejection *)

\* C18: a reject, whatever it does to the client's trust state, leaves the
\* whole price table unchanged.
C18_RejectKeepsPrices ==
  [][ \A id \in ContribIds, mo \in Motivos :
        (res'.op = "rejeitar" /\ res'.id = id /\ Rejeitar(id, mo))
          => precos' = precos ]_vars

\* a second consecutive rejection has just been answered while the table
\* holds a price
C18_Witness ==
  /\ res.op = "rejeitar" /\ res.status = 200
  /\ Len(precos) >= 1
  /\ \E k \in DOMAIN clientes :
       /\ contribs[res.id].clienteId = k
       /\ clientes[k].errosConsecutivos = 2

-----------------------------------------------------------------------------
(* Administrative unblock *)

\* C19: an unblock of an existing client sets bloqueado to false, the kind
\* to none (neither temporary nor permanent), errosConsecutivos to 0 and the
\* reason to empty, and leaves every blacklist entry, totalContribuicoes and
\* contribuicoesRejeitadas unchanged.
C19_Unblock ==
  [][ \A id \in DOMAIN clientes :
        (res'.op = "desbloquear" /\ res'.id = id /\ Desbloquear(id))
          => /\ res'.status = 200
             /\ ~clientes'[id].bloqueado
             /\ ~clientes'[id].banPermanente
             /\ clientes'[id].banTemporario = Null
             /\ clientes'[id].errosConsecutivos = 0
             /\ clientes'[id].motivoBloqueio = ""
             /\ clientes'[id].totalContribuicoes = clientes[id].totalContribuicoes
             /\ clientes'[id].contribuicoesRejeitadas
                  = clientes[id].contribuicoesRejeitadas
             /\ blacklist' = blacklist ]_vars

\* a client with an approval and a rejection has just been unblocked while
\* the blacklist holds an entry
C19_Witness ==
  /\ res.op = "desbloquear" /\ res.status = 200
  /\ res.id \in DOMAIN clientes
  /\ clientes[res.id].totalContribuicoes = 1
  /\ clientes[res.id].contribuicoesRejeitadas = 1
  /\ ~clientes[res.id].bloqueado
  /\ blacklist # <<>>

-----------------------------------------------------------------------------
(* Temporary block *)

\* the client is blocked with kind temporary
BanTemporario(c) == c.bloqueado /\ ~c.banPermanente /\ c.banTemporario # Null

\* C20: a temporary block of an existing client, whatever the day count,
\* leaves the client blocked with kind temporary and expiry now + days; on a
\* client already temporarily blocked it changes nothing but the expiry.
C20_BlockTemporary ==
  [][ \A id \in DOMAIN clientes, b \in BloqueioInputs :
        (b.tipo = "temp" /\ res'.op = "bloquear" /\ res'.id = id /\ Bloquear(id, b))
          => /\ BanTemporario(clientes'[id])
             /\ clientes'[id].banTemporario = now + b.dias.v
             /\ BanTemporario(clientes[id])
                  => clientes'[id]
                       = [clientes[id] EXCEPT !.banTemporario = now + b.dias.v] ]_vars

-----------------------------------------------------------------------------
(* Permanent block *)

\* the step is a login with the login and the password of client id
LoginCorreto(id) ==
  \E b \in LoginInputs :
    /\ b.login = clientes[id].login /\ b.senha = SenhaDe(clientes[id])
    /\ res'.op = "login" /\ LoginCliente(b)

\* C21: a permanent block sets bloqueado with kind permanent and keeps the
\* client record; from then until an unblock the client stays blocked and
\* every login with that client's correct credentials is refused.
C21_PermanentBlock ==
  [][ \A id \in DOMAIN clientes :
        /\ \A b \in BloqueioInputs :
             (b.tipo = "perm" /\ res'.op = "bloquear" /\ Bloquear(id, b))
               => /\ id \in DOMAIN clientes'
                  /\ clientes'[id].bloqueado /\ clientes'[id].banPermanente
                  /\ clientes'[id].banTemporario = Null
        /\ (clientes[id].bloqueado /\ LoginCorreto(id)) => res'.status = 403
        /\ (clientes[id].bloqueado /\ id \in DOMAIN clientes'
              /\ ~(res'.op = "desbloquear" /\ Desbloquear(id)))
             => clientes'[id].bloqueado ]_vars

\* a permanently blocked client has just been refused at login
C21_Witness ==
  /\ res.op = "login" /\ res.status = 403
  /\ res.id \in DOMAIN clientes
  /\ clientes[res.id].banPermanente /\ clientes[res.id].bloqueado

-----------------------------------------------------------------------------
(* Account deletion *)

\* the blacklist entries for the digits of tel
EntradasDe(bl, tel) == {t \in DOMAIN bl : MesmosDigitos(bl[t].telefone, tel)}

\* C22: the deletion of an existing client removes the client record and
\* leaves exactly one blacklist entry for the client's normalised number,
\* active and expiring two calendar months after now, whatever entry for
\* that number existed before; other clients and entries are untouched.
C22_Terminate ==
  [][ \A id \in DOMAIN clientes :
        \A tel \in {SelectSeq(clientes[id].telefone, IsDigit)} :
          Excluida(id)
            => /\ DOMAIN clientes' = DOMAIN clientes \ {id}
               /\ \A k \in DOMAIN clientes' : clientes'[k] = clientes[k]
               /\ Cardinality(EntradasDe(blacklist', tel)) = 1
               /\ tel \in DOMAIN blacklist'
               /\ blacklist'[tel].ativo
               /\ blacklist'[tel].dataInicio = now
               /\ blacklist'[tel].dataVencimento
                    = setMonth(now, getMonth(now) + MesesBlacklist)
               /\ blacklist'[tel].dataVencimento - now \in 59..62
               /\ \A t \in DOMAIN blacklist \ {tel} :
                    t \in DOMAIN blacklist' /\ blacklist'[t] = blacklist[t] ]_vars

\* the second account registered with a number has just been deleted: its
\* deletion overwrote the entry the first deletion had left
C22_Witness ==
  /\ res.op = "excluir" /\ res.status = 200 /\ res.id = 2
  /\ DOMAIN clientes = {}
  /\ DOMAIN blacklist = {Tel1}
  /\ blacklist[Tel1].ativo
  /\ blacklist[Tel1].dataInicio = now

-----------------------------------------------------------------------------
(* Release of a blacklist entry *)

\* the step deletes a client whose number has the digits of t
ExcluiNumero(t) ==
  \E id \in DOMAIN clientes :
    MesmosDigitos(clientes[id].telefone, t) /\ Excluida(id)

\* C23: the release of an active, unexpired entry sets ativo to false; from
\* then on the lookup of that number is false and a registration under it
\* succeeds, until the deletion of a client with the same number activates
\* the entry again.
C23_Release ==
  [][ \A t \in DOMAIN blacklist :
        /\ (telNaBlacklist(t) /\ res'.op = "liberar" /\ res'.id = blacklist[t].id
              /\ LiberarBlacklist(blacklist[t].id))
             => (~blacklist'[t].ativo /\ ~telNaBlacklist(t)')
        /\ (~blacklist[t].ativo /\ ~ExcluiNumero(t))
             => (~blacklist'[t].ativo /\ ~telNaBlacklist(t)')
        /\ \A b \in CadastroInputs :
             (~blacklist[t].ativo /\ MesmosDigitos(b.telefone, t)
                /\ BemFormado(b) /\ Livre(b)
                /\ res'.op = "cadastro" /\ Cadastro(b))
               => (res'.status = 201 /\ UmNovoCliente(b.telefone)) ]_vars

\* a client has just registered under a number whose entry was released
\* before its expiry
C23_Witness ==
  /\ res.op = "cadastro" /\ res.status = 201
  /\ res.id \in DOMAIN clientes
  /\ clientes[res.id].telefone \in DOMAIN blacklist
  /\ ~blacklist[clientes[res.id].telefone].ativo
  /\ blacklist[clientes[res.id].telefone].dataVencimento > now

-----------------------------------------------------------------------------
(* Notification of the admins *)

\* C24: a submission whose contribution was stored is answered with the
\* success status 201, whatever the writes to the admins' event streams do
\* (the decisions call no notifier).
C24_NotifierFailure ==
  [][ \A u \in Users, x \in PrecosAceites, a \in AdminsOnlineInputs :
        (res'.op = "submit" /\ res'.id = u.id
           /\ PostContribuicoesSSE(u, "p1", "m1", x, a)
           /\ Len(contribs') = Len(contribs) + 1)
          => res'.status = 201 ]_vars

-----------------------------------------------------------------------------
(* The stored contributions *)

\* C25: no step removes a contribution, and the product, market, price and
\* contributor of a stored contribution never change.
C25_ContributionsKept ==
  [][ /\ Len(contribs') >= Len(contribs)
      /\ \A i \in DOMAIN contribs :
           /\ contribs'[i].produtoId = contribs[i].produtoId
           /\ contribs'[i].mercadoId = contribs[i].mercadoId
           /\ contribs'[i].preco = contribs[i].preco
           /\ contribs'[i].clienteId = contribs[i].clienteId
           /\ contribs'[i].autor = contribs[i].autor ]_vars

\* a decided contribution is still stored after its contributor's account
\* was deleted and the timer deactivated the expired blacklist entry
C25_Witness ==
  \E i \in DOMAIN contribs :
    /\ contribs[i].status # "pendente"
    /\ contribs[i].clienteId \notin DOMAIN clientes
    /\ \E t \in DOMAIN blacklist :
         ~blacklist[t].ativo /\ blacklist[t].dataVencimento <= now
-----------------------------------------------------------------------------
(* Deletion of an absent account *)

\* C27: the deletion of a client that does not exist (a well-formed
\* identifier with no document) is answered 404, deletes no client and
\* leaves the blacklist as it was.
C27_TerminateNotFound ==
  [][ \A id \in ClienteIds :
        (id \notin DOMAIN clientes /\ res'.op = "excluir" /\ res'.id = id
           /\ ExcluirCliente(id, ""))
          => (res'.status = 404 /\ clientes' = clientes
                /\ blacklist' = blacklist) ]_vars

\* the deletion of an absent client was answered 404 while another client
\* and a blacklist entry exist
C27_Witness ==
  /\ res.op = "excluir" /\ res.status = 404
  /\ res.id \notin DOMAIN clientes
  /\ DOMAIN clientes # {}
  /\ DOMAIN blacklist # {}
-----------------------------------------------------------------------------
(* The listing of contributions *)

\* C26: the listing holds pending contributions only, the newest first, at
\* most the limit, and reading it changes no stored state.
C26_ListPending ==
  [][ \A u \in Users :
        (res'.op = "listar" /\ res'.id = u.id /\ res'.status = 200
           /\ GetContribuicoes(u))
          => LET l == ListaContribuicoes(contribs)
             IN /\ \A i \in DOMAIN l : l[i].status = "pendente"
                /\ \A i \in DOMAIN l : l[i] = contribs[Len(contribs) + 1 - i]
                /\ Len(l) <= LimiteLista
                /\ UNCHANGED <<clientes, contribs, precos, blacklist>> ]_vars
-----------------------------------------------------------------------------
(* Trust counters against the stored contributions *)

ContribuicoesDe(k, status) ==
  {i \in DOMAIN contribs :
     contribs[i].clienteId = k /\ contribs[i].status = status}

\* C28: for every existing client, totalContribuicoes is the number of its
\* approved contributions and contribuicoesRejeitadas the number of its
\* rejected ones.
C28_TotalsMatch ==
  \A k \in DOMAIN clientes :
    /\ clientes[k].totalContribuicoes
         = Cardinality(ContribuicoesDe(k, "aprovado"))
    /\ clientes[k].contribuicoesRejeitadas
         = Cardinality(ContribuicoesDe(k, "rejeitado"))
-----------------------------------------------------------------------------
(* Approval for a blocked client *)

\* C29: the approval of a pending contribution of a blocked client sets the
\* client's errosConsecutivos to 0 and leaves bloqueado, the kind of the
\* block, its reason and contribuicoesRejeitadas as they were.
C29_ApproveBlocked ==
  [][ \A id \in DOMAIN contribs :
        LET k == contribs[id].clienteId
        IN (/\ k \in DOMAIN clientes /\ clientes[k].bloqueado
            /\ contribs[id].status = "pendente"
            /\ res'.op = "aprovar" /\ res'.id = id /\ res'.status = 200
            /\ Aprovar(id))
           => /\ clientes'[k].errosConsecutivos = 0
              /\ clientes'[k].bloqueado
              /\ clientes'[k].banPermanente = clientes[k].banPermanente
              /\ clientes'[k].banTemporario = clientes[k].banTemporario
              /\ clientes'[k].motivoBloqueio = clientes[k].motivoBloqueio
              /\ clientes'[k].contribuicoesRejeitadas
                   = clientes[k].contribuicoesRejeitadas ]_vars

\* the first approval for a blocked client whose other contribution was
\* rejected
C29_Witness ==
  /\ res.op = "aprovar" /\ res.status = 200
  /\ res.id \in DOMAIN contribs
  /\ Len(contribs) = 2
  /\ LET k == contribs[res.id].clienteId
     IN /\ k \in DOMAIN clientes
        /\ clientes[k].bloqueado
        /\ clientes[k].motivoBloqueio = "spam"
        /\ clientes[k].contribuicoesRejeitadas = 1
        /\ clientes[k].totalContribuicoes = 1
        /\ clientes[k].errosConsecutivos = 0
        /\ \A i \in DOMAIN contribs : i # res.id => contribs[i].status = "rejeitado"
-----------------------------------------------------------------------------
(* Rejections after an unblock *)

\* C30: after an unblock the client is blocked again by a rejection exactly
\* when it is the third rejection since the unblock with no approval between
\* them; rejections from before the unblock do not count.  (Client 1 starts
\* blocked, so it is unblocked only after an unblock; errosConsecutivos is
\* the number of rejections since the unblock or the last approval.)
C30_AutoBlockAfterUnblock ==
  [][ \A id \in DOMAIN contribs :
        LET k == contribs[id].clienteId
        IN (/\ k = 1 /\ k \in DOMAIN clientes /\ ~clientes[k].bloqueado
            /\ contribs[id].status = "pendente"
            /\ res'.op = "rejeitar" /\ res'.id = id /\ res'.status = 200
            /\ Rejeitar(id, ""))
           => (clientes'[k].bloqueado
                 <=> clientes'[k].errosConsecutivos >= LimiteErros) ]_vars
-----------------------------------------------------------------------------
(* Temporary block and the passage of time *)

\* C31: a temporarily blocked client stays blocked in every step that is not
\* an unblock of that client, the passing of days beyond banTemporario
\* included, and its submissions are refused with 403 and store nothing.
C31_TempBlockStays ==
  [][ \A id \in DOMAIN clientes :
        BanTemporario(clientes[id])
          => /\ ~(res'.op = "desbloquear" /\ res'.id = id /\ Desbloquear(id))
                  => (id \in DOMAIN clientes' /\ clientes'[id].bloqueado)
             /\ \A u \in Users :
                  (u.tipo = "cliente" /\ u.id = id
                     /\ res'.op = "submit" /\ res'.id = id
                     /\ PostContribuicoes(u, "p1", "m1", JsNum(2)))
                    => (res'.status = 403 /\ contribs' = contribs) ]_vars

\* a client refused at submission is still blocked days after the expiry of
\* its temporary ban
C31_Witness ==
  /\ res.op = "submit" /\ res.status = 403
  /\ res.id \in DOMAIN clientes
  /\ BanTemporario(clientes[res.id])
  /\ clientes[res.id].banTemporario < now
-----------------------------------------------------------------------------
(* Kind of the block *)

\* C32: no client is both permanently banned and holding a temporary-ban
\* expiry, and a client with a permanent ban or a temporary-ban expiry is
\* blocked.
C32_BlockKindConsistent ==
  \A id \in DOMAIN clientes :
    /\ ~(clientes[id].banPermanente /\ clientes[id].banTemporario # Null)
    /\ (clientes[id].banPermanente \/ clientes[id].banTemporario # Null)
         => clientes[id].bloqueado

\* a client has just been banned permanently while another client holds a
\* temporary ban
C32_Witness ==
  /\ res.op = "bloquear" /\ res.status = 200
  /\ res.id \in DOMAIN clientes
  /\ clientes[res.id].banPermanente
  /\ clientes[res.id].banTemporario = Null
  /\ clientes[res.id].motivoBloqueio = "spam"
  /\ \E k \in DOMAIN clientes : k # res.id /\ BanTemporario(clientes[k])
-----------------------------------------------------------------------------
(* Prices written for clients *)

\* C33: every price entry with fonte "cliente" has the product, market and
\* price of an approved contribution (a client changes the price table only
\* through the approval of one of its contributions).
C33_ClientPricesApproved ==
  \A i \in DOMAIN precos :
    precos[i].fonte = "cliente"
      => \E j \in DOMAIN contribs :
           /\ contribs[j].status = "aprovado"
           /\ contribs[j].produtoId = precos[i].produtoId
           /\ contribs[j].mercadoId = precos[i].mercadoId
           /\ contribs[j].preco = precos[i].preco
-----------------------------------------------------------------------------
(* Registration during a deletion *)

\* the deletion of a client with the digits of tel has removed the client
\* and has not written the blacklist entry yet
ExclusaoEmCurso(tel) ==
  \E r \in DOMAIN reqs :
    reqs[r].pc = "blacklist" /\ MesmosDigitos(reqs[r].tel, tel)

\* C34: no registration under the number of a deleted client succeeds from
\* the deletion of the client record on, neither between the delete and the
\* blacklist upsert of the deletion nor while the entry is active and
\* unexpired.
C34_NoRegistrationDuringTerminate ==
  [][ \A b \in CadastroInputs :
        (/\ ExclusaoEmCurso(b.telefone) \/ EntradaVigente(b.telefone)
         /\ res'.op = "cadastro" /\ Cadastro(b))
          => res'.status # 201 ]_vars
-----------------------------------------------------------------------------
(* Clients and the blacklist *)

\* C35: no existing client has a number for which an active, unexpired
\* blacklist entry exists.
C35_NoClientBlacklisted ==
  \A k \in DOMAIN clientes : ~EntradaVigente(clientes[k].telefone)
-----------------------------------------------------------------------------
(* Decisions after the contributor's account was deleted *)

\* C36: the approval or rejection of a pending contribution whose client no
\* longer exists is answered 200 and changes the status (the approval also
\* writes the price entry); it creates or changes no client and no
\* blacklist entry.
C36_DecideAfterTerminate ==
  [][ \A id \in DOMAIN contribs :
        (contribs[id].status = "pendente"
           /\ contribs[id].clienteId \notin DOMAIN clientes)
          => /\ (res'.op = "aprovar" /\ res'.id = id /\ Aprovar(id))
                  => /\ res'.status = 200
                     /\ contribs'[id].status = "aprovado"
                     /\ \E i \in DOMAIN precos' :
                          /\ precos'[i].produtoId = contribs[id].produtoId
                          /\ precos'[i].mercadoId = contribs[id].mercadoId
                          /\ precos'[i].preco = contribs[id].preco
                     /\ clientes' = clientes /\ blacklist' = blacklist
             /\ (res'.op = "rejeitar" /\ res'.id = id /\ Rejeitar(id, ""))
                  => /\ res'.status = 200
                     /\ contribs'[id].status = "rejeitado"
                     /\ precos' = precos
                     /\ clientes' = clientes /\ blacklist' = blacklist ]_vars

\* a contribution was approved on a later day than the one its client's
\* account was deleted on
C36_Witness ==
  /\ res.op = "aprovar" /\ res.status = 200
  /\ res.id \in DOMAIN contribs
  /\ contribs[res.id].status = "aprovado"
  /\ contribs[res.id].clienteId \notin DOMAIN clientes
  /\ \E t \in DOMAIN blacklist, i \in DOMAIN precos :
       /\ blacklist[t].ativo
       /\ precos[i].dataAtu > blacklist[t].dataInicio
-----------------------------------------------------------------------------
(* Failure of a write during the approval *)

\* C37: when the approval of a pending contribution is answered with a
\* failure because one of its writes failed, the contribution is still
\* pending and neither the price table nor the client's trust state changed.
C37_ApproveAllOrNothing ==
  [][ \A id \in DOMAIN contribs :
        (contribs[id].status = "pendente"
           /\ res'.op = "aprovar" /\ res'.id = id /\ res'.status = 500
           /\ Aprovar(id))
          => /\ contribs'[id].status = "pendente"
             /\ precos' = precos
             /\ clientes' = clientes ]_vars
====
